---- MODULE Spec2Model ----
(***************************************************************************)
(* Model of roboticstoolbox/backend/VPython/stl.py: the two functions      *)
(* import_object_from_numpy_stl and set_stl_origin, acting on the scene    *)
(* of a renderer (vpython) and reading meshes through numpy-stl.           *)
(*                                                                         *)
(* The renderer's state is what the two functions can create and change:   *)
(* the triangles and the compound objects, in creation order.  `calls` is  *)
(* the log of the calls made so far (arguments, outcome, and what each     *)
(* call saw before it changed anything), which the properties read.        *)
(*                                                                         *)
(* Coordinates, normals, extents and scale factors are integers: vector    *)
(* arithmetic is exact in the model (no floating-point rounding).          *)
(***************************************************************************)
EXTENDS Integers, Sequences, FiniteSets, TLC

VARIABLES triangles, objects, calls

vars == <<triangles, objects, calls>>

(***************************************************************************)
(* Bounds of the model.                                                    *)
(***************************************************************************)
\* most faces a mesh file holds
MaxFaces == 2
\* most calls made in one run of Spec
MaxCalls == 2
\* most calls made in one run of SpecReloc
MaxRelocCalls == 3

(***************************************************************************)
(* Values: vpython vectors, numpy arrays.                                  *)
(***************************************************************************)
\* vpython vec(x, y, z) / vector(x, y, z)
Vec(a, b, c) == [x |-> a, y |-> b, z |-> c]

\* vpython vector addition (stl_obj.pos += movement)
VAdd(u, v) == Vec(u.x + v.x, u.y + v.y, u.z + v.z)

\* vpython vector subtraction (required_obj_origin - current_obj_origin)
VSub(u, v) == Vec(u.x - v.x, u.y - v.y, u.z - v.z)

\* a 0-indexed array or list of three items (a numpy row, meshdata, scale)
Arr3(a, b, c) == [i \in 0..2 |-> IF i = 0 THEN a ELSE IF i = 1 THEN b ELSE c]

\* color.white
White == Vec(1, 1, 1)

\* the canonical x-axis of common_functions
x_axis_vector == Vec(1, 0, 0)

\* the axis a vpython object has when its constructor is given no axis
DefaultAxis == Vec(1, 0, 0)

\* the up vector a vpython object has when its constructor is given no up
DefaultUp == Vec(0, 1, 0)

(***************************************************************************)
(* Poses (SE3) and their accessors in common_functions.                    *)
(***************************************************************************)
get_pose_pos(pose) == pose.t

get_pose_x_vec(pose) == pose.n

get_pose_y_vec(pose) == pose.o

get_pose_z_vec(pose) == pose.a

(***************************************************************************)
(* Mesh files.  A raw face is three vertex rows and one normal row, as     *)
(* numpy-stl yields them; a mesh is its faces, indexed from 0.             *)
(***************************************************************************)
FaceBank ==
    Arr3([v |-> Arr3(Arr3(0, 0, 0), Arr3(1, 0, 0), Arr3(1, 1, 0)), n |-> Arr3(0, 0, 1)],
         [v |-> Arr3(Arr3(0, 0, 0), Arr3(1, 1, 0), Arr3(0, 1, 0)), n |-> Arr3(0, 1, 2)],
         [v |-> Arr3(Arr3(2, 0, 1), Arr3(0, 3, 1), Arr3(4, 5, 6)), n |-> Arr3(3, -1, 2)])

\* the mesh of n faces that starts at face `start` of the bank
MeshOf(start, n) ==
    [vectors |-> [f \in 0..(n - 1) |-> FaceBank[(start + f) % 3].v],
     normals |-> [f \in 0..(n - 1) |-> FaceBank[(start + f) % 3].n]]

\* mesh.Mesh.from_file: the mesh of a well-formed file, a failure otherwise
FromFile(filename) ==
    IF filename[1] = "stl"
    THEN [ok |-> TRUE, mesh |-> MeshOf(filename[2], filename[3])]
    ELSE [ok |-> FALSE, mesh |-> MeshOf(0, 0)]

\* len(the_mesh.vectors)
NumFaces(the_mesh) == Cardinality(DOMAIN the_mesh.vectors)

(***************************************************************************)
(* import_object_from_numpy_stl: the loop over the faces.                  *)
(***************************************************************************)
\* mutant of face_range: range(1, num_faces), the first face skipped
face_range_skip(num_faces) == [i \in 1..(num_faces - 1) |-> i]

\* range(0, num_faces), in the order the loop visits it
face_range(num_faces) == [i \in 1..num_faces |-> i - 1]

\* vertex(pos=vec(point[0], point[1], point[2]), normal=normal, color=color.white)
vertex(point, normal) ==
    [pos |-> Vec(point[0], point[1], point[2]), normal |-> normal, color |-> White]

\* mutant of face_triangle: the third vertex built from point1 again
face_triangle_copy(the_mesh, face, scene) ==
    LET point0 == the_mesh.vectors[face][0]
        point1 == the_mesh.vectors[face][1]
        normal == Vec(the_mesh.normals[face][0], the_mesh.normals[face][1],
                      the_mesh.normals[face][2])
    IN  [canvas |-> scene,
         vs |-> <<vertex(point0, normal), vertex(point1, normal), vertex(point1, normal)>>]

\* one pass of the loop body: the triangle built for face `face`
face_triangle(the_mesh, face, scene) ==
    LET point0 == the_mesh.vectors[face][0]
        point1 == the_mesh.vectors[face][1]
        point2 == the_mesh.vectors[face][2]
        normal0 == the_mesh.normals[face][0]
        normal1 == the_mesh.normals[face][1]
        normal2 == the_mesh.normals[face][2]
        normal == Vec(normal0, normal1, normal2)
        vertex0 == vertex(point0, normal)
        vertex1 == vertex(point1, normal)
        vertex2 == vertex(point2, normal)
        vertices == <<vertex0, vertex1, vertex2>>
    IN  [canvas |-> scene, vs |-> vertices]

\* mutant of loop_triangles: a failing loop takes back the triangles it built
loop_triangles_cleanup(the_mesh, faces, scene, fault) ==
    IF \E i \in 1..Len(faces) : faces[i] = fault
    THEN <<>>
    ELSE [i \in 1..Len(faces) |-> face_triangle(the_mesh, faces[i], scene)]

\* The triangles the loop has created when it ends: all of them, or, when the
\* renderer raises while building face `fault`, those of the faces before it
\* (nothing removes them: the function has no handler).
RECURSIVE loop_triangles(_, _, _, _)
loop_triangles(the_mesh, faces, scene, fault) ==
    IF faces = <<>> \/ Head(faces) = fault
    THEN <<>>
    ELSE <<face_triangle(the_mesh, Head(faces), scene)>>
         \o loop_triangles(the_mesh, Tail(faces), scene, fault)

(***************************************************************************)
(* The renderer's compound constructor and the size setters.               *)
(***************************************************************************)
\* compound(objList, canvas=..., **kw): the grouped object.  Its members are
\* named by type and creation number.  Its position and extents are the
\* renderer's (bbox); origin, axis and up come from the keywords named so, and
\* any other keyword becomes an attribute of the object.
compound(objList, canvas, kw, bbox) ==
    [canvas  |-> canvas,
     members |-> objList,
     origin  |-> IF "origin" \in DOMAIN kw THEN kw.origin ELSE bbox.pos,
     axis    |-> IF "axis" \in DOMAIN kw THEN kw.axis ELSE DefaultAxis,
     up      |-> IF "up" \in DOMAIN kw THEN kw.up ELSE DefaultUp,
     attrs   |-> [k \in DOMAIN kw \ {"origin", "axis", "up"} |-> kw[k]],
     pos     |-> bbox.pos,
     length  |-> bbox.length,
     height  |-> bbox.height,
     width   |-> bbox.width,
     visible |-> TRUE]

\* mutant of scaled: every extent multiplied by scale[0]
scaled_uniform(visual_mesh, scale) ==
    [visual_mesh EXCEPT !.length = @ * scale[0],
                        !.height = @ * scale[0],
                        !.width  = @ * scale[0]]

\* visual_mesh.length *= scale[0]; .height *= scale[1]; .width *= scale[2]
scaled(visual_mesh, scale) ==
    [visual_mesh EXCEPT !.length = @ * scale[0],
                        !.height = @ * scale[1],
                        !.width  = @ * scale[2]]

\* compound(triangles, origin=origin_pos, canvas=scene, axis=origin_x, up=origin_y)
visual_mesh_of(triangle_ids, scene, origin, bbox) ==
    LET origin_pos == get_pose_pos(origin)
        origin_x == get_pose_x_vec(origin)
        origin_y == get_pose_y_vec(origin)
    IN  compound(triangle_ids, scene,
                 [origin |-> origin_pos, axis |-> origin_x, up |-> origin_y], bbox)

(***************************************************************************)
(* The log of calls: each call's arguments, its outcome (status, result:    *)
(* the creation number of the object returned, 0 when none), the step at   *)
(* which the renderer raised, the numbers of triangles and objects before  *)
(* and after it, the extents of the compound as grouped (before scaling),  *)
(* and the input object's position before and after.                       *)
(***************************************************************************)
NoVec == Vec(0, 0, 0)

NoBox == [pos |-> NoVec, length |-> 0, height |-> 0, width |-> 0]

NoPose == [t |-> NoVec, n |-> NoVec, o |-> NoVec, a |-> NoVec]

NoMeshData == Arr3(<<"none", 0, 0>>, Arr3(0, 0, 0), NoPose)

\* what a call of import_object_from_numpy_stl leaves in the log
ImportCall(meshdata, scene, fault, status, result, grouped) ==
    [op |-> "import_object_from_numpy_stl", status |-> status, scene |-> scene,
     meshdata |-> meshdata, stl_obj |-> 0, current |-> NoVec, required |-> NoVec,
     oldPos |-> NoVec, newPos |-> NoVec, grouped |-> grouped, result |-> result,
     fault |-> fault,
     triBefore |-> Len(triangles), triAfter |-> Len(triangles'),
     objBefore |-> Len(objects), objAfter |-> Len(objects')]

\* what a call of set_stl_origin leaves in the log
OriginCall(stl_obj, current, required, scene, fault, status, result) ==
    [op |-> "set_stl_origin", status |-> status, scene |-> scene,
     meshdata |-> NoMeshData, stl_obj |-> stl_obj, current |-> current,
     required |-> required, oldPos |-> objects[stl_obj].pos,
     newPos |-> objects'[stl_obj].pos, grouped |-> NoBox, result |-> result,
     fault |-> fault,
     triBefore |-> Len(triangles), triAfter |-> Len(triangles'),
     objBefore |-> Len(objects), objAfter |-> Len(objects')]

(***************************************************************************)
(* import_object_from_numpy_stl(meshdata, scene).  `fault` is the step at  *)
(* which the renderer raises (face k: building triangle k; num_faces: the  *)
(* compound; -1: never) and `bbox` what the renderer computes for the      *)
(* compound.                                                               *)
(***************************************************************************)
import_object_from_numpy_stl(meshdata, scene, fault, bbox) ==
    LET filename == meshdata[0]
        scale == meshdata[1]
        origin == meshdata[2]
        parsed == FromFile(filename)
        the_mesh == parsed.mesh
        num_faces == NumFaces(the_mesh)
        built == loop_triangles(the_mesh, face_range(num_faces), scene, fault)
        ids == [i \in 1..Len(built) |-> [type |-> "triangle", id |-> Len(triangles) + i]]
        visual_mesh == scaled(visual_mesh_of(ids, scene, origin, bbox), scale)
    IN  IF ~parsed.ok
        THEN /\ fault = -1
             /\ UNCHANGED <<triangles, objects>>
             /\ calls' = Append(calls, ImportCall(meshdata, scene, fault, "ParseError", 0, NoBox))
        ELSE /\ fault \in -1..num_faces
             /\ triangles' = triangles \o built
             /\ IF fault = -1
                THEN /\ objects' = Append(objects, visual_mesh)
                     /\ calls' = Append(calls, ImportCall(meshdata, scene, fault,
                                                "returned", Len(objects) + 1, bbox))
                ELSE /\ UNCHANGED objects
                     /\ calls' = Append(calls, ImportCall(meshdata, scene, fault,
                                                "RenderError", 0, NoBox))

(***************************************************************************)
(* set_stl_origin(stl_obj, current_obj_origin, required_obj_origin, scene) *)
(***************************************************************************)
\* mutant of moved_pos: the movement taken the other way round
moved_pos_reversed(pos, current_obj_origin, required_obj_origin) ==
    VAdd(pos, VSub(current_obj_origin, required_obj_origin))

\* mutant of moved_pos: stl_obj.pos = movement, assigned instead of added
moved_pos_assigned(pos, current_obj_origin, required_obj_origin) ==
    VSub(required_obj_origin, current_obj_origin)

\* movement = required_obj_origin - current_obj_origin; stl_obj.pos += movement
moved_pos(pos, current_obj_origin, required_obj_origin) ==
    LET movement == VSub(required_obj_origin, current_obj_origin)
    IN  VAdd(pos, movement)

\* mutant of superseded: the x-axis is also set on the input object
superseded_with_axis(obj, current_obj_origin, required_obj_origin) ==
    [obj EXCEPT !.pos = moved_pos(@, current_obj_origin, required_obj_origin),
                !.visible = FALSE,
                !.axis = x_axis_vector]

\* the input object after the body: moved, then made invisible
superseded(obj, current_obj_origin, required_obj_origin) ==
    [obj EXCEPT !.pos = moved_pos(@, current_obj_origin, required_obj_origin),
                !.visible = FALSE]

\* mutant of wrapper_of: the origin keyword left out
wrapper_without_origin(stl_obj, scene, bbox) ==
    compound(<<[type |-> "compound", id |-> stl_obj]>>, scene,
             [vector |-> x_axis_vector], bbox)

\* compound([stl_obj], origin=vector(0, 0, 0), vector=x_axis_vector, canvas=scene)
wrapper_of(stl_obj, scene, bbox) ==
    compound(<<[type |-> "compound", id |-> stl_obj]>>, scene,
             [origin |-> Vec(0, 0, 0), vector |-> x_axis_vector], bbox)

set_stl_origin(stl_obj, current_obj_origin, required_obj_origin, scene, fault, bbox) ==
    /\ stl_obj \in 1..Len(objects)
    /\ triangles' = triangles
    /\ LET moved == [objects EXCEPT ![stl_obj] =
                        superseded(@, current_obj_origin, required_obj_origin)]
       IN  IF fault = -1
           THEN /\ objects' = Append(moved, wrapper_of(stl_obj, scene, bbox))
                /\ calls' = Append(calls, OriginCall(stl_obj, current_obj_origin,
                                 required_obj_origin, scene, fault, "returned", Len(objects) + 1))
           ELSE /\ objects' = moved
                /\ calls' = Append(calls, OriginCall(stl_obj, current_obj_origin,
                                 required_obj_origin, scene, fault, "RenderError", 0))

(***************************************************************************)
(* Inputs and specifications.                                              *)
(***************************************************************************)
PoseA == [t |-> Vec(0, 0, 0), n |-> Vec(1, 0, 0), o |-> Vec(0, 1, 0), a |-> Vec(0, 0, 1)]

PoseB == [t |-> Vec(1, 2, 3), n |-> Vec(0, 1, 0), o |-> Vec(0, 0, 1), a |-> Vec(1, 0, 0)]

\* scale, pose and target scene of a call, chosen together
Placements ==
    {[scale |-> Arr3(2, 3, 5), pose |-> PoseB, scene |-> "scene1"],
     [scale |-> Arr3(3, 1, 2), pose |-> PoseA, scene |-> "scene2"]}

\* well-formed files of 0..MaxFaces faces, a missing file and a file that is no STL
Filenames ==
    {<<"stl", 0, n>> : n \in 0..MaxFaces}
        \cup {<<"stl", 1, MaxFaces>>, <<"missing", 0, 0>>, <<"garbage", 0, 0>>}

\* position and extents the renderer may compute for a compound
BBoxes ==
    {[pos |-> Vec(1, 1, 0), length |-> 2, height |-> 3, width |-> 1],
     [pos |-> Vec(0, -1, 2), length |-> 1, height |-> 4, width |-> 2]}

Points == {Vec(0, 0, 0), Vec(1, 2, 3)}

Faults == -1..MaxFaces

Init ==
    /\ triangles = <<>>
    /\ objects = <<>>
    /\ calls = <<>>

\* (a call that fails before the compound is built has no use of bbox: one is taken)
Import ==
    /\ Len(calls) < MaxCalls
    /\ \E filename \in Filenames, p \in Placements, fault \in Faults, bbox \in BBoxes :
          /\ fault = -1 \/ bbox = CHOOSE b \in BBoxes : TRUE
          /\ import_object_from_numpy_stl(Arr3(filename, p.scale, p.pose), p.scene,
                                          fault, bbox)

SetOrigin ==
    /\ Len(calls) < MaxCalls
    /\ \E stl_obj \in 1..Len(objects), cur \in Points, req \in Points,
          fault \in {-1, 0}, bbox \in BBoxes :
          /\ fault = -1 \/ bbox = CHOOSE b \in BBoxes : TRUE
          /\ set_stl_origin(stl_obj, cur, req, objects[stl_obj].canvas, fault, bbox)

Next == Import \/ SetOrigin

Spec == Init /\ [][Next]_vars

(***************************************************************************)
(* The specification for the relocation properties: two well-formed files, *)
(* no renderer fault, more origin points and longer runs.                  *)
(***************************************************************************)
RelocPoints == {Vec(0, 0, 0), Vec(1, 2, 3), Vec(-1, 0, 2)}

RelocPlacement == [scale |-> Arr3(2, 3, 5), pose |-> PoseB, scene |-> "scene1"]

RelocFilenames == {<<"stl", 2, 1>>, <<"stl", 0, MaxFaces>>}

ImportForReloc ==
    /\ Len(calls) < MaxRelocCalls
    /\ \E filename \in RelocFilenames, bbox \in BBoxes :
          import_object_from_numpy_stl(
              Arr3(filename, RelocPlacement.scale, RelocPlacement.pose),
              RelocPlacement.scene, -1, bbox)

SetOriginReloc ==
    /\ Len(calls) < MaxRelocCalls
    /\ \E stl_obj \in 1..Len(objects), cur \in RelocPoints, req \in RelocPoints,
          bbox \in BBoxes :
          set_stl_origin(stl_obj, cur, req, objects[stl_obj].canvas, -1, bbox)

NextReloc == ImportForReloc \/ SetOriginReloc

SpecReloc == Init /\ [][NextReloc]_vars

(***************************************************************************)
(* Properties.  They read the log: ImportCalls and OriginCalls are the     *)
(* places in it of the calls of each function.                             *)
(***************************************************************************)
ImportCalls == {i \in 1..Len(calls) : calls[i].op = "import_object_from_numpy_stl"}

OriginCalls == {i \in 1..Len(calls) : calls[i].op = "set_stl_origin"}

Returned(S) == {i \in S : calls[i].status = "returned"}

\* the raw mesh a call read
MeshRead(c) == FromFile(c.meshdata[0]).mesh

\* vertex j (0..2) of face k of a raw mesh, as a point
RawPoint(the_mesh, k, j) ==
    [x |-> the_mesh.vectors[k][j][0],
     y |-> the_mesh.vectors[k][j][1],
     z |-> the_mesh.vectors[k][j][2]]

\* the normal of face k of a raw mesh, as a vector
RawNormal(the_mesh, k) ==
    [x |-> the_mesh.normals[k][0],
     y |-> the_mesh.normals[k][1],
     z |-> the_mesh.normals[k][2]]

\* the k-th (from 0) triangle a call created
Created(c, k) == triangles[c.triBefore + k + 1]

\* C1: a successful import of a mesh of F >= 1 faces creates exactly F
\* triangles in the given scene, the k-th from face k, and exactly one object,
\* the one returned, whose members are these F triangles in face order.
C1_OneTrianglePerFace ==
    \A i \in Returned(ImportCalls) :
        LET c == calls[i]
            F == NumFaces(MeshRead(c))
        IN  F >= 1 =>
              /\ c.triAfter - c.triBefore = F
              /\ \A k \in 0..(F - 1) :
                    /\ Created(c, k).canvas = c.scene
                    /\ \A j \in 0..2 :
                          Created(c, k).vs[j + 1].pos = RawPoint(MeshRead(c), k, j)
              /\ c.objAfter = c.objBefore + 1
              /\ c.result = c.objAfter
              /\ objects[c.result].canvas = c.scene
              /\ objects[c.result].members =
                    [k \in 1..F |-> [type |-> "triangle", id |-> c.triBefore + k]]

\* C1's case: an import of a mesh of at least two faces has returned, in a
\* scene that already held triangles.
C1_Witness ==
    \E i \in Returned(ImportCalls) :
        /\ NumFaces(MeshRead(calls[i])) >= 2
        /\ calls[i].triBefore > 0

\* C2: the k-th triangle a call of the import built has, in input order, the
\* three vertex positions of face k as they are in the mesh, and its three
\* vertices carry the normal of face k and the colour white.
C2_VerticesAsInMesh ==
    \A i \in ImportCalls :
        LET c == calls[i]
        IN  \A k \in 0..(c.triAfter - c.triBefore - 1) : \A j \in 0..2 :
                /\ Created(c, k).vs[j + 1].pos = RawPoint(MeshRead(c), k, j)
                /\ Created(c, k).vs[j + 1].normal = RawNormal(MeshRead(c), k)
                /\ Created(c, k).vs[j + 1].color = White
                /\ Len(Created(c, k).vs) = 3

\* C2's case: a returned import, with a scale other than 1 and a pose away from
\* the origin, of a mesh whose second face has three different vertices.
C2_Witness ==
    \E i \in Returned(ImportCalls) :
        LET c == calls[i]
        IN  /\ NumFaces(MeshRead(c)) >= 2
            /\ c.meshdata[1][0] > 1
            /\ get_pose_pos(c.meshdata[2]) # Vec(0, 0, 0)
            /\ Cardinality({RawPoint(MeshRead(c), 1, j) : j \in 0..2}) = 3

\* C3: the object an import returned has the length, height and width of the
\* compound as grouped, multiplied by scale[0], scale[1] and scale[2], each by
\* its own factor, and the vertices of its triangles are the mesh's unscaled.
C3_ScaleAfterGrouping ==
    \A i \in Returned(ImportCalls) :
        LET c == calls[i]
            scale == c.meshdata[1]
        IN  /\ objects[c.result].length = c.grouped.length * scale[0]
            /\ objects[c.result].height = c.grouped.height * scale[1]
            /\ objects[c.result].width = c.grouped.width * scale[2]
            /\ \A k \in 0..(c.triAfter - c.triBefore - 1) : \A j \in 0..2 :
                  Created(c, k).vs[j + 1].pos = RawPoint(MeshRead(c), k, j)

\* C3's case: a returned import with three different scale factors, none 1,
\* of a mesh with a vertex away from the origin.
C3_Witness ==
    \E i \in Returned(ImportCalls) :
        LET c == calls[i]
            scale == c.meshdata[1]
        IN  /\ Cardinality({scale[0], scale[1], scale[2], 1}) = 4
            /\ NumFaces(MeshRead(c)) >= 1
            /\ c.grouped.length # c.grouped.height

\* the call made last
LastCall == calls[Len(calls)]

\* where a point of the input object of call c that was at p before the call
\* is after it: the object moved as a whole, by the change of its position
PointAfter(c, p) == VAdd(p, VSub(c.newPos, c.oldPos))

\* C4: after set_stl_origin the point of the object that was at the required
\* origin before the call is at (0, 0, 0).
C4_RequiredOriginAtZero ==
    \A i \in Returned(OriginCalls) :
        PointAfter(calls[i], calls[i].required) = Vec(0, 0, 0)

\* C5: after set_stl_origin the input object, now the one member of the object
\* returned, is at its old position plus (required - current), in each component.
C5_ExactTranslation ==
    (Len(calls) > 0 /\ LastCall.op = "set_stl_origin" /\ LastCall.status = "returned") =>
        LET c == LastCall
            child == objects[objects[c.result].members[1].id]
        IN  /\ objects[c.result].members[1].id = c.stl_obj
            /\ child.pos.x = c.oldPos.x + (c.required.x - c.current.x)
            /\ child.pos.y = c.oldPos.y + (c.required.y - c.current.y)
            /\ child.pos.z = c.oldPos.z + (c.required.z - c.current.z)

\* C5's case: set_stl_origin has just returned for an object away from the
\* origin, with required and current origins that differ in every component.
C5_Witness ==
    /\ Len(calls) > 0
    /\ LastCall.op = "set_stl_origin"
    /\ LastCall.status = "returned"
    /\ LastCall.oldPos # Vec(0, 0, 0)
    /\ LastCall.required.x # LastCall.current.x
    /\ LastCall.required.y # LastCall.current.y
    /\ LastCall.required.z # LastCall.current.z

\* call j relocates the object call i returned, from the origin call i required
Chained(i, j) ==
    /\ i < j
    /\ calls[i].status = "returned"
    /\ calls[j].status = "returned"
    /\ calls[j].stl_obj = calls[i].result
    /\ calls[j].current = calls[i].required

C7_SupersededAndWrapped ==
    \A i \in OriginCalls :
        LET c == calls[i]
        IN  /\ c.stl_obj \in 1..Len(objects)
            /\ ~objects[c.stl_obj].visible
            /\ c.status = "returned" =>
                  /\ c.result # c.stl_obj
                  /\ c.result = c.objBefore + 1
                  /\ c.objAfter = c.objBefore + 1
                  /\ objects[c.result].members = <<[type |-> "compound", id |-> c.stl_obj]>>
                  /\ objects[c.result].origin = Vec(0, 0, 0)
                  /\ objects[c.result].axis = x_axis_vector

\* C7's case: set_stl_origin has returned for an object that an import made
\* from triangles and that was visible, placed by a pose whose position is not
\* the origin and whose x-axis is not the canonical one.
C7_Witness ==
    \E i \in Returned(OriginCalls) : \E m \in Returned(ImportCalls) :
        /\ calls[m].result = calls[i].stl_obj
        /\ Len(objects[calls[i].stl_obj].members) >= 1
        /\ objects[calls[i].stl_obj].origin # Vec(0, 0, 0)
        /\ objects[calls[i].stl_obj].axis # x_axis_vector

IsCall == Len(calls') = Len(calls) + 1

NewCall == calls'[Len(calls')]

\* the input object of a set_stl_origin step, its position and visibility apart
SamePosVisibleApart(o) ==
    [objects'[o] EXCEPT !.pos = objects[o].pos, !.visible = objects[o].visible]
        = objects[o]

\* what a successful import changes: numFaces triangles and one object more
ImportFrame ==
    LET F == NumFaces(MeshRead(NewCall))
    IN  /\ Len(triangles') = Len(triangles) + F
        /\ SubSeq(triangles', 1, Len(triangles)) = triangles
        /\ Len(objects') = Len(objects) + 1
        /\ SubSeq(objects', 1, Len(objects)) = objects
        /\ SubSeq(calls', 1, Len(calls)) = calls

\* what a successful set_stl_origin changes: one object more, and the position
\* and visibility of its input object
OriginFrame ==
    /\ triangles' = triangles
    /\ Len(objects') = Len(objects) + 1
    /\ \A o \in 1..Len(objects) : o # NewCall.stl_obj => objects'[o] = objects[o]
    /\ SamePosVisibleApart(NewCall.stl_obj)
    /\ SubSeq(calls', 1, Len(calls)) = calls

\* C10: each successful import adds numFaces triangles and one object and
\* changes nothing that was there; each successful set_stl_origin adds one
\* object and changes only the position and visibility of its input object.
C10_Frame ==
    [][(IsCall /\ NewCall.status = "returned") =>
          IF NewCall.op = "import_object_from_numpy_stl"
          THEN ImportFrame
          ELSE OriginFrame]_vars

\* C10's case: an import of a mesh of two faces or more has returned in a
\* scene that already held an object and triangles, and set_stl_origin has
\* returned, having moved an object whose axis is not the canonical x-axis.
C10_Witness ==
    /\ \E i \in Returned(ImportCalls) :
          /\ calls[i].objBefore > 0
          /\ calls[i].triBefore > 0
          /\ NumFaces(MeshRead(calls[i])) >= 2
    /\ \E i \in Returned(OriginCalls) :
          /\ objects[calls[i].stl_obj].axis # x_axis_vector
          /\ calls[i].oldPos # calls[i].newPos
          /\ calls[i].objBefore >= 2

====
